---- MODULE Spec2Model ----
(***************************************************************************)
(* The player avatar (player.ts) and the puzzle-object spawner             *)
(* (puzzleObject.ts) of the point-and-click game: two inventories, the     *)
(* hotbar that projects them, the detail window, left-right movement.      *)
(***************************************************************************)
EXTENDS Integers, Sequences, FiniteSets, TLC

(***************************************************************************)
(* Registries.  A definition is an object compared by reference; it is     *)
(* modelled by a record that is a different value from its registry key.   *)
(***************************************************************************)

\* puzzleObject.ts: the registry of puzzle-object definitions
puzzleObjects ==
  [k \in {"key", "small-key", "big-key", "radio", "gravity-stone"} |->
     CASE k = "key"           -> [name |-> "Key"]
       [] k = "small-key"     -> [name |-> "Small Key"]
       [] k = "big-key"       -> [name |-> "Big Key"]
       [] k = "radio"         -> [name |-> "Broken Radio"]
       [] k = "gravity-stone" -> [name |-> "Gravity Stone"]]

\* material.ts is not among the sources: a registry of the same shape
materials ==
  [k \in {"wood", "stone", "iron"} |->
     CASE k = "wood"  -> [name |-> "Wood"]
       [] k = "stone" -> [name |-> "Stone"]
       [] k = "iron"  -> [name |-> "Iron"]]

PuzzleObjectType == DOMAIN puzzleObjects
MaterialType == DOMAIN materials

\* the outcome of a call that throws
Thrown == "throw"

\* the value undefined where a definition is expected
Undefined == [name |-> "undefined"]

\* reverse lookup of a definition's key; throws when it is not registered
getPuzzleObjectType(puzzleObject) ==
  IF \E k \in PuzzleObjectType : puzzleObjects[k] = puzzleObject
  THEN CHOOSE k \in PuzzleObjectType : puzzleObjects[k] = puzzleObject
  ELSE Thrown

getMaterialType(material) ==
  IF \E k \in MaterialType : materials[k] = material
  THEN CHOOSE k \in MaterialType : materials[k] = material
  ELSE Thrown

(***************************************************************************)
(* JavaScript array primitives, 0-based as in the code.                    *)
(***************************************************************************)

Min(a, b) == IF a < b THEN a ELSE b
Max(a, b) == IF a > b THEN a ELSE b
Abs(a) == IF a < 0 THEN -a ELSE a

\* Array.prototype.indexOf: the first 0-based index of e, or -1
indexOf(s, e) ==
  IF \E i \in 1..Len(s) : s[i] = e
  THEN (CHOOSE i \in 1..Len(s) : s[i] = e /\ \A j \in 1..(i - 1) : s[j] # e) - 1
  ELSE -1

\* Array.prototype.splice(start, deleteCount, ...items): a negative start
\* counts from the end of the array
splice(s, start, deleteCount, items) ==
  LET len == Len(s)
      st  == IF start < 0 THEN Max(len + start, 0) ELSE Min(start, len)
      dc  == Min(Max(deleteCount, 0), len - st)
  IN  SubSeq(s, 1, st) \o items \o SubSeq(s, st + dc + 1, len)

(***************************************************************************)
(* The hotbar (hud.ts is not among the sources): an ordered row of items.  *)
(* An item is {name, onActivate}; the closure of onActivate captures the   *)
(* definition the item was made for, kept here as obj.  An item's identity *)
(* is its place in the row.                                                *)
(***************************************************************************)

addItem(hotbar, item) == Append(hotbar, item)

\* removeItem(item), the item being the one at 1-based place i
removeItem(hotbar, i) == SubSeq(hotbar, 1, i - 1) \o SubSeq(hotbar, i + 1, Len(hotbar))

\* removeItemByName(name): the first item of that name, if any
removeItemByName(hotbar, name) ==
  IF \E i \in 1..Len(hotbar) : hotbar[i].name = name
  THEN removeItem(hotbar,
         CHOOSE i \in 1..Len(hotbar) :
           hotbar[i].name = name /\ \A j \in 1..(i - 1) : hotbar[j].name # name)
  ELSE hotbar

(***************************************************************************)
(* Player.  A player is the record of its fields; saved and toast record   *)
(* the calls of window.game.save() and toast() made by the operation in    *)
(* progress.                                                               *)
(***************************************************************************)

None == "none"

\* tick without the Math.max / Math.min against targetX
tick_NoClamp(p, dt) ==
  LET maxMovement == (500 * dt) \div 1000
  IN  IF p.x > p.targetX THEN [p EXCEPT !.x = p.x - maxMovement]
      ELSE IF p.x < p.targetX THEN [p EXCEPT !.x = p.x + maxMovement]
      ELSE p

\* tick without its first branch: a player right of the target stands still
tick_OnlyRight(p, dt) ==
  LET maxMovement == (500 * dt) \div 1000
  IN  IF p.x < p.targetX THEN [p EXCEPT !.x = Min(p.x + maxMovement, p.targetX)]
      ELSE p

\* Player.tick; dt in milliseconds, so 500 * dt units per second
tick(p, dt) ==
  LET maxMovement == (500 * dt) \div 1000
  IN  IF p.x > p.targetX THEN [p EXCEPT !.x = Max(p.x - maxMovement, p.targetX)]
      ELSE IF p.x < p.targetX THEN [p EXCEPT !.x = Min(p.x + maxMovement, p.targetX)]
      ELSE p

\* canReach with "<=" for "<"
canReach_Inclusive(p, px, py) == Abs(px - p.x) <= 200

\* Player.canReach
canReach(p, px, py) == Abs(px - p.x) < 200

\* Player.moveToCursor
moveToCursor(p, px) == [p EXCEPT !.targetX = px]

\* hasPuzzleObject with the index test "> 0": an object in the first place
\* is not seen
hasPuzzleObject_SkipsFirst(p, obj) == indexOf(p.heldPuzzleObjects, obj) > 0

\* Player.hasPuzzleObject
hasPuzzleObject(p, obj) == indexOf(p.heldPuzzleObjects, obj) # -1

\* Player.tossPuzzleObject
tossPuzzleObject(p, obj) ==
  [p EXCEPT !.heldPuzzleObjects = splice(@, indexOf(@, obj), 1, << >>),
            !.hotbar = removeItemByName(@, obj.name)]

\* Player.placePuzzleObject; rm is this.room, putObjectIn the answer of the
\* first furnace to putObjectIn(obj)
placePuzzleObject(p, obj, rm, putObjectIn) ==
  IF rm.bound
  THEN IF rm.furnace
       THEN IF putObjectIn THEN tossPuzzleObject(p, obj) ELSE p
       ELSE [p EXCEPT !.toast = "Nowhere to put it"]
  ELSE p

\* Player.takePuzzleObject
takePuzzleObject(p, obj, isInitializing) ==
  [p EXCEPT !.heldPuzzleObjects = Append(@, obj),
            !.hotbar = addItem(@, [kind |-> "puzzleObject", name |-> obj.name, obj |-> obj]),
            !.saved = IF isInitializing THEN @ ELSE TRUE]

\* Player.hasMaterial
hasMaterial(p, mat) == indexOf(p.heldMaterials, mat) # -1

\* takeMaterial with the capacity test ">" in place of ">="
takeMaterial_OffByOne(p, mat, isInitializing) ==
  IF Len(p.heldMaterials) > p.materialInventorySize
  THEN [p EXCEPT !.toast = "You can't hold that many things."]
  ELSE IF hasMaterial(p, mat)
  THEN [p EXCEPT !.toast = "You've already got one of those."]
  ELSE [p EXCEPT !.heldMaterials = Append(@, mat),
                 !.hotbar = addItem(@, [kind |-> "material", name |-> mat.name, obj |-> mat]),
                 !.saved = IF isInitializing THEN @ ELSE TRUE]

\* takeMaterial without the test for a material already held
takeMaterial_NoDuplicateCheck(p, mat, isInitializing) ==
  IF Len(p.heldMaterials) >= p.materialInventorySize
  THEN [p EXCEPT !.toast = "You can't hold that many things."]
  ELSE [p EXCEPT !.heldMaterials = Append(@, mat),
                 !.hotbar = addItem(@, [kind |-> "material", name |-> mat.name, obj |-> mat]),
                 !.saved = IF isInitializing THEN @ ELSE TRUE]

\* Player.takeMaterial
takeMaterial(p, mat, isInitializing) ==
  IF Len(p.heldMaterials) >= p.materialInventorySize
  THEN [p EXCEPT !.toast = "You can't hold that many things."]
  ELSE IF hasMaterial(p, mat)
  THEN [p EXCEPT !.toast = "You've already got one of those."]
  ELSE [p EXCEPT !.heldMaterials = Append(@, mat),
                 !.hotbar = addItem(@, [kind |-> "material", name |-> mat.name, obj |-> mat]),
                 !.saved = IF isInitializing THEN @ ELSE TRUE]

\* the onActivate closure of the hotbar item at place i, made by
\* takeMaterial for the material mat it captured; putItem is the answer of
\* the room's cauldron to putItem(mat).  Called with a room bound.
materialOnActivate(p, i, rm, putItem) ==
  LET mat == p.hotbar[i].obj
  IN  IF ~rm.cauldron THEN [p EXCEPT !.toast = "This goes in a cauldron"]
      ELSE IF ~canReach(p, rm.cauldronX, rm.cauldronY)
      THEN [p EXCEPT !.toast = "You cannot reach that"]
      ELSE IF ~putItem THEN p
      ELSE [p EXCEPT !.hotbar = removeItem(@, i),
                     !.heldMaterials = splice(@, indexOf(@, mat), 1, << >>),
                     !.saved = TRUE]

\* heldMaterials.find(mat => getMaterialType(mat) === applyTo): the first
\* such element, or undefined
findMaterial(s, applyTo) ==
  IF \E i \in 1..Len(s) : getMaterialType(s[i]) = applyTo
  THEN s[CHOOSE i \in 1..Len(s) :
           getMaterialType(s[i]) = applyTo
           /\ \A j \in 1..(i - 1) : getMaterialType(s[j]) # applyTo]
  ELSE Undefined

\* heldPuzzleObjects.find(po => getPuzzleObjectType(po) === applyTo)
findPuzzleObject(s, applyTo) ==
  IF \E i \in 1..Len(s) : getPuzzleObjectType(s[i]) = applyTo
  THEN s[CHOOSE i \in 1..Len(s) :
           getPuzzleObjectType(s[i]) = applyTo
           /\ \A j \in 1..(i - 1) : getPuzzleObjectType(s[j]) # applyTo]
  ELSE Undefined

\* applyPotion that removes the material found and pushes the new one at the
\* end instead of putting it in the same place
applyPotion_Appends(p, potion) ==
  LET materialToApplyTo == findMaterial(p.heldMaterials, potion.applyTo)
      puzzleObjectToApplyTo == findPuzzleObject(p.heldPuzzleObjects, potion.applyTo)
  IN  IF materialToApplyTo # Undefined
      THEN [p EXCEPT !.heldMaterials =
              Append(splice(@, indexOf(@, materialToApplyTo), 1, << >>),
                     materials[potion.turnsInto])]
      ELSE IF puzzleObjectToApplyTo # Undefined
      THEN [p EXCEPT !.heldPuzzleObjects =
              splice(@, indexOf(@, puzzleObjectToApplyTo), 1,
                     << puzzleObjects[potion.turnsInto] >>)]
      ELSE p

\* applyPotion that splices the puzzle objects without testing that find
\* found one: indexOf is then -1 and the last object is replaced
applyPotion_Unchecked(p, potion) ==
  LET materialToApplyTo == findMaterial(p.heldMaterials, potion.applyTo)
      puzzleObjectToApplyTo == findPuzzleObject(p.heldPuzzleObjects, potion.applyTo)
  IN  IF materialToApplyTo # Undefined
      THEN [p EXCEPT !.heldMaterials =
              splice(@, indexOf(@, materialToApplyTo), 1, << materials[potion.turnsInto] >>)]
      ELSE IF potion.turnsInto \in PuzzleObjectType
      THEN [p EXCEPT !.heldPuzzleObjects =
              splice(@, indexOf(@, puzzleObjectToApplyTo), 1,
                     << puzzleObjects[potion.turnsInto] >>)]
      ELSE p

\* Player.applyPotion: the player after the call
applyPotion(p, potion) ==
  LET materialToApplyTo == findMaterial(p.heldMaterials, potion.applyTo)
      puzzleObjectToApplyTo == findPuzzleObject(p.heldPuzzleObjects, potion.applyTo)
  IN  IF materialToApplyTo # Undefined
      THEN [p EXCEPT !.heldMaterials =
              splice(@, indexOf(@, materialToApplyTo), 1, << materials[potion.turnsInto] >>)]
      ELSE IF puzzleObjectToApplyTo # Undefined
      THEN [p EXCEPT !.heldPuzzleObjects =
              splice(@, indexOf(@, puzzleObjectToApplyTo), 1,
                     << puzzleObjects[potion.turnsInto] >>)]
      ELSE p

\* Player.applyPotion: the value it returns
applyPotionReturns(p, potion) ==
  \/ findMaterial(p.heldMaterials, potion.applyTo) # Undefined
  \/ findPuzzleObject(p.heldPuzzleObjects, potion.applyTo) # Undefined

\* Player.serialize
serialize(p) ==
  [x |-> p.x,
   y |-> p.y,
   heldMaterials |-> [i \in 1..Len(p.heldMaterials) |-> getMaterialType(p.heldMaterials[i])],
   heldPuzzleObjects |->
     [i \in 1..Len(p.heldPuzzleObjects) |-> getPuzzleObjectType(p.heldPuzzleObjects[i])],
   materialInventorySize |-> << p.materialInventorySize >>]

\* the loops of the constructor over the saved keys
RECURSIVE takeMaterials(_, _)
takeMaterials(p, keys) ==
  IF keys = << >> THEN p
  ELSE takeMaterials(takeMaterial(p, materials[Head(keys)], TRUE), Tail(keys))

RECURSIVE takePuzzleObjects(_, _)
takePuzzleObjects(p, keys) ==
  IF keys = << >> THEN p
  ELSE takePuzzleObjects(takePuzzleObject(p, puzzleObjects[Head(keys)], TRUE), Tail(keys))

\* Player.constructor; the optional field materialInventorySize of PlayerData
\* is a sequence of at most one number
Player(data) ==
  LET p0 == [x |-> data.x, y |-> data.y, targetX |-> data.x,
             materialInventorySize |->
               IF data.materialInventorySize = << >> THEN 5
               ELSE data.materialInventorySize[1],
             heldMaterials |-> << >>, heldPuzzleObjects |-> << >>, hotbar |-> << >>,
             saved |-> FALSE, toast |-> None]
  IN  takePuzzleObjects(takeMaterials(p0, data.heldMaterials), data.heldPuzzleObjects)

\* Player.deserialize: the images are loaded, then the constructor runs
deserialize(playerData) == Player(playerData)

(***************************************************************************)
(* PuzzleObjectSpawner.  A spawner is the record of its fields; rm is its  *)
(* room, whose player (when the room is bound) is p.                       *)
(***************************************************************************)

\* isUnderPointer with "&&" in place of "||": a click is off the box only
\* when it is off on both axes
isUnderPointer_And(s, cx, cy) ==
  ~(2 * Abs(s.x - cx) > s.width /\ 2 * Abs(s.y - cy) > s.height)

\* PuzzleObjectSpawner.isUnderPointer (twice the distances, to stay in integers)
isUnderPointer(s, cx, cy) ==
  ~(2 * Abs(s.x - cx) > s.width \/ 2 * Abs(s.y - cy) > s.height)

\* isVisible without the test of the player's inventory
isVisible_IgnoresInventory(s, rm, p) ==
  IF ~rm.bound THEN FALSE ELSE TRUE

\* PuzzleObjectSpawner.isVisible
isVisible(s, rm, p) ==
  IF ~rm.bound THEN FALSE ELSE ~hasPuzzleObject(p, s.puzzleObject)

\* PuzzleObjectSpawner.doClick: the value it returns
doClickReturns(s, rm, p, cx, cy) ==
  IF ~isUnderPointer(s, cx, cy) THEN FALSE
  ELSE IF ~isVisible(s, rm, p) THEN FALSE
  ELSE IF ~(rm.bound /\ canReach(p, s.x, s.y)) THEN FALSE
  ELSE TRUE

\* PuzzleObjectSpawner.doClick: the detail window after the call, w before it;
\* i is the spawner's place among the room's spawners
doClickWindow(i, s, rm, p, cx, cy, w) ==
  IF ~isUnderPointer(s, cx, cy) THEN [kind |-> "none"]
  ELSE IF ~isVisible(s, rm, p) THEN w
  ELSE IF ~(rm.bound /\ canReach(p, s.x, s.y)) THEN w
  ELSE [kind |-> "take", spawner |-> i]

(***************************************************************************)
(* The world the two classes run in: the bounds and the level data.        *)
(***************************************************************************)

\* the hotbar is not given more items than this: takeMaterial and
\* takePuzzleObject are not called when they would add one more
MaxHotbar == 3

\* the values of materialInventorySize in the saved players
InventorySizes == { 1, 2 }

\* the room's spawners
Spawners ==
  << [puzzleObject |-> puzzleObjects["key"], x |-> 50, y |-> 50, width |-> 40, height |-> 40] >>

NoRoom == [bound |-> FALSE, cauldron |-> FALSE, furnace |-> FALSE, cauldronX |-> 0, cauldronY |-> 0]

\* the rooms a player can be bound to: one with a cauldron and a furnace,
\* one with neither
Rooms ==
  { [bound |-> TRUE, cauldron |-> c, furnace |-> c, cauldronX |-> 400, cauldronY |-> 60] :
      c \in BOOLEAN }

\* the saved players a game starts from
PlayerDatas ==
  { [x |-> 100, y |-> 80, heldMaterials |-> hm, heldPuzzleObjects |-> hp,
     materialInventorySize |-> << n >>] :
      hm \in {<< >>, << "wood" >>}, hp \in {<< >>, << "key" >>}, n \in InventorySizes }

\* the materials lying in the world
Takeable == { "wood", "stone" }

\* the potions: a material into another material, a puzzle object into another
Potions ==
  { [applyTo |-> "wood", turnsInto |-> "stone"],
    [applyTo |-> "wood", turnsInto |-> "iron"],
    [applyTo |-> "key", turnsInto |-> "small-key"],
    [applyTo |-> "small-key", turnsInto |-> "key"] }

\* where the pointer clicks, where the cursor sends the player, the frame times (ms)
Clicks == { <<55, 55>>, <<70, 70>>, <<71, 50>>, <<50, 29>> }
Targets == { 100, 300 }
Dts == { 500 }

VARIABLES x, y, targetX, materialInventorySize, heldMaterials, heldPuzzleObjects,
          hotbar, saved, toast, room, hudWindow, ret

playerVars == << x, y, targetX, materialInventorySize, heldMaterials, heldPuzzleObjects,
                 hotbar, saved, toast >>
vars == << x, y, targetX, materialInventorySize, heldMaterials, heldPuzzleObjects,
           hotbar, saved, toast, room, hudWindow, ret >>

\* the player object, as the record the operators work on
Self ==
  [x |-> x, y |-> y, targetX |-> targetX, materialInventorySize |-> materialInventorySize,
   heldMaterials |-> heldMaterials, heldPuzzleObjects |-> heldPuzzleObjects,
   hotbar |-> hotbar, saved |-> saved, toast |-> toast]

\* the player as an operation finds it: nothing saved, shown or played yet
Begin == [Self EXCEPT !.saved = FALSE, !.toast = None]

\* the player object becomes p
Becomes(p) ==
  /\ x' = p.x
  /\ y' = p.y
  /\ targetX' = p.targetX
  /\ materialInventorySize' = p.materialInventorySize
  /\ heldMaterials' = p.heldMaterials
  /\ heldPuzzleObjects' = p.heldPuzzleObjects
  /\ hotbar' = p.hotbar
  /\ saved' = p.saved
  /\ toast' = p.toast

\* ret is the value the last call returned (or Thrown), when it was a call
\* that returns one; Void after any other call
Void == [call |-> "none", value |-> "void"]
NoWindow == [kind |-> "none"]

\* the state after construction: a player made from a saved record, not yet
\* put into a room, no detail window open
Init ==
  \E data \in PlayerDatas :
    LET p == deserialize(data)
    IN  /\ x = p.x
        /\ y = p.y
        /\ targetX = p.targetX
        /\ materialInventorySize = p.materialInventorySize
        /\ heldMaterials = p.heldMaterials
        /\ heldPuzzleObjects = p.heldPuzzleObjects
        /\ hotbar = p.hotbar
        /\ saved = p.saved
        /\ toast = p.toast
        /\ room = NoRoom
        /\ hudWindow = NoWindow
        /\ ret = Void

\* the room takes the player and the spawners in: player.room, spawner.room
\* and room.player are set
EnterRoom(r) ==
  /\ ~room.bound
  /\ room' = r
  /\ Becomes(Begin)
  /\ ret' = Void
  /\ UNCHANGED hudWindow

\* Player.tick(dt)
Tick(dt) ==
  /\ Becomes(tick(Begin, dt))
  /\ ret' = Void
  /\ UNCHANGED << room, hudWindow >>

\* Player.moveToCursor(px)
MoveToCursor(px) ==
  /\ Becomes(moveToCursor(Begin, px))
  /\ ret' = Void
  /\ UNCHANGED << room, hudWindow >>

\* Player.takeMaterial(materials[k])
TakeMaterial(k) ==
  /\ Len(takeMaterial(Begin, materials[k], FALSE).hotbar) <= MaxHotbar
  /\ Becomes(takeMaterial(Begin, materials[k], FALSE))
  /\ ret' = Void
  /\ UNCHANGED << room, hudWindow >>

\* the hotbar item at place i is activated: onActivate of a material item
\* deposits into the cauldron (this.room! throws when no room is bound),
\* onActivate of a puzzle-object item opens the detail window with its toss
\* and place callbacks
ActivateHotbarItem(i) ==
  /\ i \in 1..Len(hotbar)
  /\ IF hotbar[i].kind = "material"
     THEN /\ UNCHANGED hudWindow
          /\ IF ~room.bound
             THEN Becomes(Begin) /\ ret' = [call |-> "onActivate", value |-> Thrown]
             ELSE \E putItem \in BOOLEAN :
                    /\ Becomes(materialOnActivate(Begin, i, room, putItem))
                    /\ ret' = Void
     ELSE /\ Becomes(Begin)
          /\ hudWindow' = [kind |-> "item", obj |-> hotbar[i].obj]
          /\ ret' = Void
  /\ UNCHANGED room

\* the detail window's onToss callback
WindowToss ==
  /\ hudWindow.kind = "item"
  /\ Becomes(tossPuzzleObject(Begin, hudWindow.obj))
  /\ ret' = Void
  /\ UNCHANGED << room, hudWindow >>

\* the detail window's onPlace callback
WindowPlace ==
  /\ hudWindow.kind = "item"
  /\ \E putObjectIn \in BOOLEAN :
       /\ Becomes(placePuzzleObject(Begin, hudWindow.obj, room, putObjectIn))
  /\ ret' = Void
  /\ UNCHANGED << room, hudWindow >>

\* PuzzleObjectSpawner.doClick(cx, cy) of the spawner at place i
DoClick(i, cx, cy) ==
  /\ Becomes(Begin)
  /\ hudWindow' = doClickWindow(i, Spawners[i], room, Begin, cx, cy, hudWindow)
  /\ ret' = [call |-> "doClick", value |-> doClickReturns(Spawners[i], room, Begin, cx, cy)]
  /\ UNCHANGED room

\* the detail window's onTake callback: PuzzleObjectSpawner.take
WindowTake ==
  /\ hudWindow.kind = "take"
  /\ Len(hotbar) < MaxHotbar
  /\ IF room.bound
     THEN Becomes(takePuzzleObject(Begin, Spawners[hudWindow.spawner].puzzleObject, FALSE))
     ELSE Becomes(Begin)
  /\ ret' = Void
  /\ UNCHANGED << room, hudWindow >>

\* Player.applyPotion(potion)
ApplyPotion(potion) ==
  /\ Becomes(applyPotion(Begin, potion))
  /\ ret' = [call |-> "applyPotion", value |-> applyPotionReturns(Begin, potion)]
  /\ UNCHANGED << room, hudWindow >>

Next ==
  \/ \E r \in Rooms : EnterRoom(r)
  \/ \E dt \in Dts : Tick(dt)
  \/ \E px \in Targets : MoveToCursor(px)
  \/ \E k \in Takeable : TakeMaterial(k)
  \/ \E i \in 1..MaxHotbar : ActivateHotbarItem(i)
  \/ WindowToss
  \/ WindowPlace
  \/ \E i \in 1..Len(Spawners), c \in Clicks : DoClick(i, c[1], c[2])
  \/ WindowTake
  \/ \E potion \in Potions : ApplyPotion(potion)

Spec == Init /\ [][Next]_vars

(***************************************************************************)
(* Properties.                                                             *)
(***************************************************************************)

\* the definition d is an element of the list s
Holds(s, d) == \E i \in 1..Len(s) : s[i] = d

\* the first place of the list s whose material has the registry key t
FirstOfType(s, t) ==
  CHOOSE i \in 1..Len(s) :
    s[i] = materials[t] /\ \A j \in 1..(i - 1) : s[j] # materials[t]

\* C1: in every reachable state the number of held materials is at most
\* materialInventorySize
C1_AtMostInventorySize == Len(heldMaterials) <= materialInventorySize

\* C1 witness: the inventory is full and a further takeMaterial was rejected
C1_Witness ==
  /\ toast = "You can't hold that many things."
  /\ Len(heldMaterials) = materialInventorySize
  /\ materialInventorySize > 1

\* C2: in every reachable state no material definition is held more than once
C2_NoDuplicateMaterials ==
  \A i, j \in 1..Len(heldMaterials) : i # j => heldMaterials[i] # heldMaterials[j]

\* takeMaterial(materials[k]) has succeeded and its hotbar item has not been
\* used up by a deposit: the item takeMaterial made for it is in the row
Taken(k) ==
  \E j \in 1..Len(hotbar) : hotbar[j].kind = "material" /\ hotbar[j].obj = materials[k]

\* C3: a material m that was taken and is held stops being held only in a
\* step that deposits m itself (the activation of the hotbar item made for
\* m) or that applies a potion to m itself; no other step makes
\* hasMaterial(m) false
C3_HeldUntilDepositedOrReplaced ==
  [][\A k \in Takeable :
       (/\ Taken(k)
        /\ Holds(heldMaterials, materials[k])
        /\ ~Holds(heldMaterials', materials[k]))
       => \/ \E i \in 1..Len(hotbar) :
               /\ hotbar[i].kind = "material"
               /\ hotbar[i].obj = materials[k]
               /\ ActivateHotbarItem(i)
          \/ \E potion \in Potions : potion.applyTo = k /\ ApplyPotion(potion)]_vars

\* C4: serialize() followed by deserialize() gives a player with the same x
\* and y, the same held material keys, the same held puzzle-object keys and
\* the same materialInventorySize
C4_RoundTrip ==
  LET q == deserialize(serialize(Self))
  IN  /\ q.x = x
      /\ q.y = y
      /\ serialize(q).heldMaterials = serialize(Self).heldMaterials
      /\ serialize(q).heldPuzzleObjects = serialize(Self).heldPuzzleObjects
      /\ q.materialInventorySize = materialInventorySize

\* the spawner at place i is shown
Visible(i) == isVisible(Spawners[i], room, Self)

\* C5 as stated: a spawner stops being visible exactly in the steps in which
\* the bound player comes to hold its definition, and once the definition
\* has been acquired the spawner is never visible again
C5_OneShot ==
  [][\A i \in 1..Len(Spawners) :
       room.bound =>
         /\ (Visible(i) /\ ~Visible(i)')
              <=> (/\ ~Holds(heldPuzzleObjects, Spawners[i].puzzleObject)
                   /\ Holds(heldPuzzleObjects', Spawners[i].puzzleObject))
         /\ ~Visible(i) => ~Visible(i)']_vars

\* C5 amended: a spawner stops being visible exactly in the steps in which
\* the bound player comes to hold its definition, it stays invisible for as
\* long as the player holds the definition, and it is visible again only
\* through a step that takes the definition out of the inventory
C5_InvisibleWhileHeld ==
  [][\A i \in 1..Len(Spawners) :
       room.bound =>
         /\ (Visible(i) /\ ~Visible(i)')
              <=> (/\ ~Holds(heldPuzzleObjects, Spawners[i].puzzleObject)
                   /\ Holds(heldPuzzleObjects', Spawners[i].puzzleObject))
         /\ (~Visible(i) /\ Holds(heldPuzzleObjects', Spawners[i].puzzleObject))
              => ~Visible(i)'
         /\ (~Visible(i) /\ Visible(i)')
              => (/\ Holds(heldPuzzleObjects, Spawners[i].puzzleObject)
                  /\ ~Holds(heldPuzzleObjects', Spawners[i].puzzleObject))]_vars

\* C5 witness: the object was taken, then tossed, and its spawner shows again
C5_Witness ==
  /\ room.bound
  /\ Visible(1)
  /\ hudWindow = [kind |-> "item", obj |-> Spawners[1].puzzleObject]
  /\ \A i \in 1..Len(hotbar) : hotbar[i].name # Spawners[1].puzzleObject.name

\* C6: applyPotion(T -> U) with a material of type T held, i being the place
\* of the (first) held T: it returns true, place i then holds U and not T,
\* every other material place and the puzzle objects are as before
C6_PotionReplacesInPlace ==
  [][\A potion \in Potions :
       (/\ potion.applyTo \in MaterialType
        /\ Holds(heldMaterials, materials[potion.applyTo])
        /\ ApplyPotion(potion))
       => LET i == FirstOfType(heldMaterials, potion.applyTo)
          IN  /\ ret' = [call |-> "applyPotion", value |-> TRUE]
              /\ Len(heldMaterials') = Len(heldMaterials)
              /\ heldMaterials'[i] = materials[potion.turnsInto]
              /\ heldMaterials'[i] # materials[potion.applyTo]
              /\ \A j \in 1..Len(heldMaterials) :
                   j # i => heldMaterials'[j] = heldMaterials[j]
              /\ heldPuzzleObjects' = heldPuzzleObjects]_vars

\* C6 witness: a potion has turned the first of two held materials into iron
C6_Witness ==
  /\ ret = [call |-> "applyPotion", value |-> TRUE]
  /\ Len(heldMaterials) = 2
  /\ heldMaterials[1] = materials["iron"]

\* C7: applyPotion with no held material and no held puzzle object of type
\* applyTo returns false and leaves the inventories, the position and the
\* hotbar as they were
C7_PotionWithoutTarget ==
  [][\A potion \in Potions :
       (/\ \A i \in 1..Len(heldMaterials) :
             getMaterialType(heldMaterials[i]) # potion.applyTo
        /\ \A i \in 1..Len(heldPuzzleObjects) :
             getPuzzleObjectType(heldPuzzleObjects[i]) # potion.applyTo
        /\ ApplyPotion(potion))
       => /\ ret' = [call |-> "applyPotion", value |-> FALSE]
          /\ UNCHANGED << heldMaterials, heldPuzzleObjects, hotbar, x, y, targetX >>]_vars

\* C7 witness: a potion found nothing to apply to in a non-empty inventory
C7_Witness ==
  /\ ret = [call |-> "applyPotion", value |-> FALSE]
  /\ heldMaterials # << >>
  /\ heldPuzzleObjects # << >>

\* C8: takeMaterial(m) with the inventory at materialInventorySize, or with m
\* already held, leaves the held materials, the held puzzle objects and the
\* hotbar as they were and triggers no save
C8_TakeRejected ==
  [][\A k \in Takeable :
       (/\ \/ Len(heldMaterials) >= materialInventorySize
           \/ Holds(heldMaterials, materials[k])
        /\ TakeMaterial(k))
       => /\ UNCHANGED << heldMaterials, heldPuzzleObjects, hotbar >>
          /\ saved' = FALSE]_vars

\* C8 witness: a material already held was refused with room left for it
C8_Witness ==
  /\ toast = "You've already got one of those."
  /\ Len(heldMaterials) < materialInventorySize
  /\ ~saved

\* C9: in every reachable state with the room and its player bound, a
\* spawner is visible if and only if the player does not hold the spawner's
\* definition
C9_VisibleIffNotHeld ==
  room.bound =>
    \A i \in 1..Len(Spawners) :
      Visible(i) <=> ~Holds(heldPuzzleObjects, Spawners[i].puzzleObject)

\* C9 witness: the bound player has just taken the spawner's object, which
\* hides the spawner
C9_Witness ==
  /\ hudWindow = [kind |-> "take", spawner |-> 1]
  /\ saved
  /\ room.bound
  /\ Holds(heldPuzzleObjects, Spawners[1].puzzleObject)
  /\ ~Visible(1)

\* the click (cx, cy) lies in the half-width/half-height box of spawner s
InBox(s, cx, cy) ==
  /\ 2 * (cx - s.x) <= s.width
  /\ 2 * (s.x - cx) <= s.width
  /\ 2 * (cy - s.y) <= s.height
  /\ 2 * (s.y - cy) <= s.height

\* the bound player stands less than 200 from spawner s
InReach(s) == room.bound /\ s.x - x < 200 /\ x - s.x < 200

\* C10: doClick(cx, cy) returns true, and then has opened the spawner's
\* detail window, only for a click inside the box of a spawner that is not
\* yet collected and within reach; otherwise it returns false, opens no
\* window and changes no inventory
C10_ClickOpensOnlyWhenAllowed ==
  [][\A i \in 1..Len(Spawners), c \in Clicks :
       DoClick(i, c[1], c[2]) =>
         LET allowed ==
               /\ InBox(Spawners[i], c[1], c[2])
               /\ room.bound
               /\ ~Holds(heldPuzzleObjects, Spawners[i].puzzleObject)
               /\ InReach(Spawners[i])
         IN  /\ ret' = [call |-> "doClick", value |-> allowed]
             /\ allowed => hudWindow' = [kind |-> "take", spawner |-> i]
             /\ ~allowed => hudWindow' \in {hudWindow, NoWindow}
             /\ UNCHANGED << heldMaterials, heldPuzzleObjects, hotbar >>]_vars

\* C10 witness: a click on a collected spawner, in reach, did nothing (a
\* click off the box would have closed the open window)
C10_Witness ==
  /\ ret = [call |-> "doClick", value |-> FALSE]
  /\ hudWindow.kind # "none"
  /\ InReach(Spawners[1])
  /\ Holds(heldPuzzleObjects, Spawners[1].puzzleObject)

(***************************************************************************)
(* Movement on its own: a player who is sent to targets, walks there frame *)
(* by frame and is asked what is in reach.  The positions, targets and     *)
(* frame times are finer than in Spec; the inventories are only carried.   *)
(***************************************************************************)

\* the saved players of the movement specification
MovePlayerDatas ==
  { [x |-> x0, y |-> 80, heldMaterials |-> << "wood" >>, heldPuzzleObjects |-> << "key" >>,
     materialInventorySize |-> << 2 >>] : x0 \in { 0, 100, 300 } }

\* where the cursor sends the player, and the frame times (ms): no time,
\* one frame at 60 Hz, a tenth of a second, half a second
MoveTargets == { 0, 100, 130, 300, 500 }
MoveDts == { 0, 16, 100, 500 }

\* the points canReach is asked about
ReachPoints == { << px, py >> : px \in { 100, 299, 300, 301, 500 }, py \in { 0, 1000 } }

MoveInit ==
  \E data \in MovePlayerDatas :
    LET p == deserialize(data)
    IN  /\ x = p.x
        /\ y = p.y
        /\ targetX = p.targetX
        /\ materialInventorySize = p.materialInventorySize
        /\ heldMaterials = p.heldMaterials
        /\ heldPuzzleObjects = p.heldPuzzleObjects
        /\ hotbar = p.hotbar
        /\ saved = p.saved
        /\ toast = p.toast
        /\ room = NoRoom
        /\ hudWindow = NoWindow
        /\ ret = Void

\* Player.canReach(px, py); the point asked about is kept with the answer
CanReach(px, py) ==
  /\ Becomes(Begin)
  /\ ret' = [call |-> "canReach", value |-> canReach(Begin, px, py), at |-> << px, py >>]
  /\ UNCHANGED << room, hudWindow >>

MoveNext ==
  \/ \E dt \in MoveDts : Tick(dt)
  \/ \E px \in MoveTargets : MoveToCursor(px)
  \/ \E c \in ReachPoints : CanReach(c[1], c[2])

MoveSpec == MoveInit /\ [][MoveNext]_vars

\* the game loop calls tick every frame with the time since the last one:
\* a tick with a positive dt is taken again and again
MoveFairSpec == MoveSpec /\ WF_vars(\E dt \in MoveDts : dt > 0 /\ Tick(dt))

\* C11: canReach(px, py) is true exactly when the horizontal distance
\* between px and the player's x is strictly less than 200, whatever py is:
\* at distance 200 exactly it is false.
C11_ReachIsStrictlyWithin200 ==
  ret.call = "canReach" =>
    (ret.value <=> (ret.at[1] - x < 200 /\ x - ret.at[1] < 200))

\* canReach has answered false for a point at distance 200 exactly
C11_Witness ==
  /\ ret.call = "canReach"
  /\ ret.at[1] - x = 200
  /\ ret.value = FALSE

\* C12: when the hotbar entry of a held material m is activated, either
\* nothing is deposited (no cauldron, cauldron out of reach, cauldron
\* rejects) and both inventories and the hotbar stay as they are, or the
\* cauldron is there, in reach and accepts, and then exactly m and the
\* activated entry are removed, every other material keeps its place and
\* order, the puzzle objects stay, and a save is triggered.  This is claimed
\* for every reachable state, also after applyPotion has replaced items.
C12_DepositRemovesExactlyM ==
  [][\A i \in 1..MaxHotbar :
       (/\ i \in 1..Len(hotbar)
        /\ hotbar[i].kind = "material"
        /\ ActivateHotbarItem(i))
       => \/ UNCHANGED << heldMaterials, heldPuzzleObjects, hotbar >>
          \/ /\ room.cauldron
             /\ room.cauldronX - x < 200 /\ x - room.cauldronX < 200
             /\ \E j \in 1..Len(heldMaterials) :
                  /\ heldMaterials[j] = hotbar[i].obj
                  /\ heldMaterials' = SubSeq(heldMaterials, 1, j - 1)
                                        \o SubSeq(heldMaterials, j + 1, Len(heldMaterials))
             /\ hotbar' = SubSeq(hotbar, 1, i - 1) \o SubSeq(hotbar, i + 1, Len(hotbar))
             /\ UNCHANGED heldPuzzleObjects
             /\ saved' = TRUE]_vars

\* how many elements of the list s carry the name n
CountName(s, n) == Cardinality({ i \in 1..Len(s) : s[i].name = n })

\* the names of all registered definitions
Names ==
  { materials[k].name : k \in MaterialType } \cup { puzzleObjects[k].name : k \in PuzzleObjectType }

\* C13: the hotbar mirrors the two inventories: every name has as many
\* hotbar entries as held materials and puzzle objects together, after any
\* sequence of take, deposit, toss, place and applyPotion.
C13_HotbarMirrorsInventories ==
  \A n \in Names :
    CountName(hotbar, n) = CountName(heldMaterials, n) + CountName(heldPuzzleObjects, n)

\* C14: tossPuzzleObject(obj) removes one occurrence of obj from the held
\* puzzle objects and the hotbar entry of obj, and leaves every other held
\* puzzle object and every material in place, whenever it is invoked in a
\* reachable state.  Stated for the invocations from the toss callback of
\* the window that an entry still in the hotbar has opened for obj.
C14_TossRemovesOnlyObj ==
  [][(/\ hudWindow.kind = "item"
      /\ \E k \in 1..Len(hotbar) : hotbar[k].obj = hudWindow.obj
      /\ WindowToss)
     => /\ \E j \in 1..Len(heldPuzzleObjects) :
             /\ heldPuzzleObjects[j] = hudWindow.obj
             /\ heldPuzzleObjects' = SubSeq(heldPuzzleObjects, 1, j - 1)
                                       \o SubSeq(heldPuzzleObjects, j + 1, Len(heldPuzzleObjects))
        /\ \E k \in 1..Len(hotbar) :
             /\ hotbar[k].obj = hudWindow.obj
             /\ hotbar' = SubSeq(hotbar, 1, k - 1) \o SubSeq(hotbar, k + 1, Len(hotbar))
        /\ UNCHANGED heldMaterials]_vars

\* C15: placePuzzleObject(obj) with a room bound: when the room has no
\* furnace the inventories and the hotbar stay as they are and the message
\* "Nowhere to put it" is shown; when the first furnace rejects obj nothing
\* changes; when it accepts, obj is removed from the held puzzle objects and
\* from the hotbar and nothing else is removed.  Stated for the invocations
\* from the place callback of the window that an entry still in the hotbar
\* has opened for obj.
C15_PlaceRemovesOnlyObj ==
  [][(/\ hudWindow.kind = "item"
      /\ room.bound
      /\ \E k \in 1..Len(hotbar) : hotbar[k].obj = hudWindow.obj
      /\ WindowPlace)
     => IF ~room.furnace
        THEN /\ UNCHANGED << heldMaterials, heldPuzzleObjects, hotbar >>
             /\ toast' = "Nowhere to put it"
        ELSE \/ UNCHANGED << heldMaterials, heldPuzzleObjects, hotbar >>
             \/ /\ \E j \in 1..Len(heldPuzzleObjects) :
                      /\ heldPuzzleObjects[j] = hudWindow.obj
                      /\ heldPuzzleObjects' =
                           SubSeq(heldPuzzleObjects, 1, j - 1)
                             \o SubSeq(heldPuzzleObjects, j + 1, Len(heldPuzzleObjects))
                /\ \E k \in 1..Len(hotbar) :
                      /\ hotbar[k].obj = hudWindow.obj
                      /\ hotbar' = SubSeq(hotbar, 1, k - 1) \o SubSeq(hotbar, k + 1, Len(hotbar))
                /\ UNCHANGED heldMaterials]_vars

\* C16: tick(dt) never overshoots: for every frame time dt, the new x lies
\* between the old x and targetX (both included), is at most 500 * dt away
\* from the old x (dt in ms, so 500 * dt / 1000), and nothing but x changes.
C16_TickNeverOvershoots ==
  [][\A dt \in MoveDts :
       Tick(dt)
       => /\ \/ x <= x' /\ x' <= targetX
             \/ targetX <= x' /\ x' <= x
          /\ 1000 * (x' - x) <= 500 * dt
          /\ 1000 * (x - x') <= 500 * dt
          /\ UNCHANGED << y, targetX, materialInventorySize, heldMaterials,
                          heldPuzzleObjects, hotbar, room, hudWindow >>]_vars

\* a tick has brought the player onto the target 130, where no saved player
\* starts
C16_Witness ==
  /\ x = targetX
  /\ x = 130
  /\ ret = Void

\* C17: after moveToCursor(t), if ticks with a positive dt keep coming and
\* no further moveToCursor changes the target, x becomes t and stays t.
C17_ReachesTargetAndStays ==
  \A t \in MoveTargets : (<>[](targetX = t)) => <>[](x = t)

\* the player has walked to the right-most target and stands on it
C17_Witness ==
  /\ targetX = 500
  /\ x = 500

\* the saved spawners a room is loaded from; "lamp" is not in the registry
SpawnerDatas ==
  { [puzzleObjectType |-> t, x |-> 50, y |-> 50] : t \in { "key", "radio", "lamp" } }

\* PuzzleObjectSpawner.deserialize: throws when the registry has no entry
\* for data.puzzleObjectType, and then no spawner is constructed; the image
\* loaded is 40 by 40
PuzzleObjectSpawner_deserialize(data) ==
  IF data.puzzleObjectType \in PuzzleObjectType
  THEN [thrown |-> FALSE,
        entity |-> << [puzzleObject |-> puzzleObjects[data.puzzleObjectType],
                       x |-> data.x, y |-> data.y, width |-> 40, height |-> 40] >>]
  ELSE [thrown |-> TRUE, entity |-> << >>]

\* C18: no inventory operation on a reachable player (takeMaterial,
\* takePuzzleObject, tossPuzzleObject, placePuzzleObject, applyPotion, the
\* deposit into the cauldron) throws: the reverse lookups applyPotion makes
\* find every held definition, and no call ends in an exception.  An error
\* is raised only by a registry lookup that does not find the key, and then
\* no entity is constructed.
C18_OnlyRegistryLookupsThrow ==
  /\ ~(ret.call = "onActivate" /\ ret.value = Thrown)
  /\ \A i \in 1..Len(heldMaterials) : getMaterialType(heldMaterials[i]) # Thrown
  /\ \A i \in 1..Len(heldPuzzleObjects) : getPuzzleObjectType(heldPuzzleObjects[i]) # Thrown
  /\ \A d \in SpawnerDatas :
       LET r == PuzzleObjectSpawner_deserialize(d)
       IN  /\ r.thrown <=> d.puzzleObjectType \notin PuzzleObjectType
           /\ r.thrown => r.entity = << >>

\* C19: however doClick, the take callback of the detail window and the
\* player's movement interleave, the player acquires a spawner's object only
\* while that spawner is visible and within reach, so that afterwards the
\* definition is held exactly once.
C19_TakesOnlyVisibleInReach ==
  [][\A i \in 1..Len(Spawners) :
       (/\ hudWindow.kind = "take"
        /\ hudWindow.spawner = i
        /\ WindowTake
        /\ Len(heldPuzzleObjects') > Len(heldPuzzleObjects))
       => /\ Visible(i)
          /\ InReach(Spawners[i])
          /\ CountName(heldPuzzleObjects', Spawners[i].puzzleObject.name) = 1]_vars

====
